---- MODULE Spec2Model ----
(***************************************************************************)
(* Model of src/rename_files.py: the "PDF Folder & File Renamer" script.   *)
(* One button click = one run: extract the uploaded zip into a temporary   *)
(* directory, pick the base path, rename AC-folders (Part 1), rename PDF   *)
(* files inside the folders just renamed (Part 2), zip the temporary       *)
(* directory again.                                                        *)
(*                                                                         *)
(* A name is a sequence of one-character strings, a path is a sequence of  *)
(* names relative to temp_dir (<< >> is temp_dir itself), and the file     *)
(* system is a set of entries [path, isDir, data] (data = 0 for a          *)
(* directory, the file's bytes otherwise).  A zip archive is a set of the  *)
(* same entries.  The file system is a case-sensitive POSIX one without    *)
(* symbolic links.                                                         *)
(***************************************************************************)
EXTENDS Integers, Sequences, FiniteSets

----------------------------------------------------------------------------
(* Bounds *)

\* largest number of entries (files and directories) in the uploaded archive
MaxNodes == 4
\* number of times the pipeline is run (a second run takes the tree of the first)
MaxRuns == 2

----------------------------------------------------------------------------
(* Strings *)

LowerLetters ==
  <<"a","b","c","d","e","f","g","h","i","j","k","l","m",
    "n","o","p","q","r","s","t","u","v","w","x","y","z">>

UpperLetters ==
  <<"A","B","C","D","E","F","G","H","I","J","K","L","M",
    "N","O","P","Q","R","S","T","U","V","W","X","Y","Z">>

DigitChars == <<"0","1","2","3","4","5","6","7","8","9">>

IsDigit(c) == \E i \in 1..10 : DigitChars[i] = c

DigitVal(c) == (CHOOSE i \in 1..10 : DigitChars[i] = c) - 1

\* str.upper() on one character
UpperChar(c) ==
  IF \E i \in 1..26 : LowerLetters[i] = c
  THEN UpperLetters[CHOOSE i \in 1..26 : LowerLetters[i] = c]
  ELSE c

\* str.lower() on one character
LowerChar(c) ==
  IF \E i \in 1..26 : UpperLetters[i] = c
  THEN LowerLetters[CHOOSE i \in 1..26 : UpperLetters[i] = c]
  ELSE c

StrUpper(s) == [i \in 1..Len(s) |-> UpperChar(s[i])]

StrLower(s) == [i \in 1..Len(s) |-> LowerChar(s[i])]

StartsWith(s, p) == Len(s) >= Len(p) /\ SubSeq(s, 1, Len(p)) = p

EndsWith(s, p) == Len(s) >= Len(p) /\ SubSeq(s, Len(s) - Len(p) + 1, Len(s)) = p

\* dir_name.upper().startswith('AC')
HasFolderPrefix(dir_name) == StartsWith(StrUpper(dir_name), <<"A","C">>)

\* re.findall(r'\d+', dir_name)[0]: the first maximal run of digits, << >> when
\* findall returns the empty list
FirstDigitRun(s) ==
  IF \E i \in 1..Len(s) : IsDigit(s[i])
  THEN LET first == CHOOSE i \in 1..Len(s) :
                      IsDigit(s[i]) /\ \A j \in 1..(i-1) : ~IsDigit(s[j])
           last  == CHOOSE k \in first..Len(s) :
                      /\ \A j \in first..k : IsDigit(s[j])
                      /\ (k = Len(s) \/ ~IsDigit(s[k+1]))
       IN  SubSeq(s, first, last)
  ELSE << >>

RECURSIVE StrToInt(_)
\* int(digits)
StrToInt(ds) ==
  IF ds = << >> THEN 0
  ELSE StrToInt(SubSeq(ds, 1, Len(ds) - 1)) * 10 + DigitVal(ds[Len(ds)])

RECURSIVE IntToStr(_)
\* str(n) for n >= 0
IntToStr(n) ==
  IF n < 10 THEN << DigitChars[n + 1] >>
  ELSE IntToStr(n \div 10) \o << DigitChars[(n % 10) + 1] >>

\* new_name = str(int(numbers[0]))
NewFolderName(dir_name) == IntToStr(StrToInt(FirstDigitRun(dir_name)))

\* filename.lower().endswith('.pdf')
HasPdfSuffix(filename) == EndsWith(StrLower(filename), <<".","p","d","f">>)

\* re.match(r'^(S\d{2})A(\d{3})(\d{4})\.pdf$', filename, re.IGNORECASE)
PdfMatch(filename) ==
  /\ Len(filename) = 15
  /\ UpperChar(filename[1]) = "S"
  /\ \A i \in 2..3 : IsDigit(filename[i])
  /\ UpperChar(filename[4]) = "A"
  /\ \A i \in 5..11 : IsDigit(filename[i])
  /\ filename[12] = "."
  /\ StrUpper(SubSeq(filename, 13, 15)) = <<"P","D","F">>

\* variant: part1 is not uppercased
NewFileName_KeepCase(filename) ==
  SubSeq(filename, 1, 3) \o <<"_">>
    \o IntToStr(StrToInt(SubSeq(filename, 5, 7))) \o <<"_">>
    \o IntToStr(StrToInt(SubSeq(filename, 8, 11))) \o <<".","p","d","f">>

\* f"{part1}_{part2_num}_{part3_num}.pdf"
NewFileName(filename) ==
  StrUpper(SubSeq(filename, 1, 3)) \o <<"_">>
    \o IntToStr(StrToInt(SubSeq(filename, 5, 7))) \o <<"_">>
    \o IntToStr(StrToInt(SubSeq(filename, 8, 11))) \o <<".","p","d","f">>

----------------------------------------------------------------------------
(* Paths and the file system *)

\* os.path.join(root, name)
Join(root, name) == Append(root, name)

\* os.path.basename(path)
Basename(path) == path[Len(path)]

Dirname(path) == SubSeq(path, 1, Len(path) - 1)

IsPrefix(p, q) == Len(p) <= Len(q) /\ SubSeq(q, 1, Len(p)) = p

\* os.path.exists(path); temp_dir itself always exists
PathExists(fsys, path) == path = << >> \/ \E e \in fsys : e.path = path

\* os.path.isdir(path)
IsDirAt(fsys, path) == path = << >> \/ \E e \in fsys : e.path = path /\ e.isDir

IsFileAt(fsys, path) == \E e \in fsys : e.path = path /\ ~e.isDir

ChildrenOf(fsys, path) == {e \in fsys : Len(e.path) = Len(path) + 1 /\ IsPrefix(path, e.path)}

\* os.listdir(path), as a set of names
ListDir(fsys, path) == {Basename(e.path) : e \in ChildrenOf(fsys, path)}

\* the dirs list of one os.walk step, as a set of names
SubdirNames(fsys, path) == {Basename(e.path) : e \in {c \in ChildrenOf(fsys, path) : c.isDir}}

\* the entries strictly below path
Below(fsys, path) == {e \in fsys : IsPrefix(path, e.path) /\ e.path # path}

\* the subtree at src is found at dst afterwards
Rebase(fsys, src, dst) ==
  {IF IsPrefix(src, e.path)
   THEN [e EXCEPT !.path = dst \o SubSeq(e.path, Len(src) + 1, Len(e.path))]
   ELSE e : e \in fsys}

\* rename(2): the error of os.rename(src, dst), "OK" when there is none
OsRenameErrno(fsys, src, dst) ==
  IF src = << >> \/ ~PathExists(fsys, src) \/ ~PathExists(fsys, Dirname(dst)) THEN "ENOENT"
  ELSE IF ~IsDirAt(fsys, Dirname(dst)) THEN "ENOTDIR"
  ELSE IF src = dst \/ ~PathExists(fsys, dst) THEN "OK"
  ELSE IF IsFileAt(fsys, src) /\ IsDirAt(fsys, dst) THEN "EISDIR"
  ELSE IF IsDirAt(fsys, src) /\ IsFileAt(fsys, dst) THEN "ENOTDIR"
  ELSE IF IsDirAt(fsys, src) /\ IsPrefix(src, dst) THEN "EINVAL"
  ELSE IF IsDirAt(fsys, src) /\ Below(fsys, dst) # {} THEN "ENOTEMPTY"
  ELSE "OK"

\* the exception the except branches catch: the error of the file system, or a
\* refusal by the system ("EACCES") that the tree does not decide
RenameError(allowed, fsys, src, dst) ==
  IF OsRenameErrno(fsys, src, dst) # "OK" THEN OsRenameErrno(fsys, src, dst)
  ELSE IF allowed THEN "OK" ELSE "EACCES"

\* variant: an entry that is in the way stays, the one renamed is dropped
OsRename_FirstWins(fsys, src, dst) ==
  IF src = dst THEN fsys
  ELSE IF PathExists(fsys, dst) THEN {e \in fsys : ~IsPrefix(src, e.path)}
  ELSE Rebase(fsys, src, dst)

\* rename(2): the file system after a successful os.rename(src, dst)
OsRename(fsys, src, dst) ==
  IF src = dst THEN fsys
  ELSE Rebase({e \in fsys : e.path # dst}, src, dst)

\* shutil.move(src, dst): into dst when dst is an existing directory
ShutilMoveTarget(fsys, src, dst) ==
  IF IsDirAt(fsys, dst) THEN Join(dst, Basename(src)) ELSE dst

ShutilMove(fsys, src, dst) == OsRename(fsys, src, ShutilMoveTarget(fsys, src, dst))

\* all orders in which a directory listing can come back
Perms(S) ==
  {f \in [1..Cardinality(S) -> S] : \A i, j \in 1..Cardinality(S) : i # j => f[i] # f[j]}

\* list.remove(x): drops the first occurrence
ListRemove(l, x) ==
  IF \E i \in 1..Len(l) : l[i] = x
  THEN LET k == CHOOSE i \in 1..Len(l) : l[i] = x /\ \A j \in 1..(i-1) : l[j] # x
       IN  SubSeq(l, 1, k - 1) \o SubSeq(l, k + 1, Len(l))
  ELSE l

----------------------------------------------------------------------------
(* Archives *)

\* zip_ref.extractall(temp_dir): every member, and the directories leading to it
ExtractAll(archive) ==
  archive \cup
  {[path |-> SubSeq(e.path, 1, k), isDir |-> TRUE, data |-> 0] :
     <<e, k>> \in {ek \in archive \X (1..MaxNodes) : ek[2] < Len(ek[1].path)}}

\* the zip written by the os.walk(temp_dir) loop: one member per file
ZipTree(fsys) == {e \in fsys : ~e.isDir}

----------------------------------------------------------------------------
(* The uploads that are tried *)

NamePool ==
  << <<"A","C","0","0","1">>,
     <<"a","c","0","1","b","2">>,
     <<"A","C","x">>,
     <<"1">>,
     <<"S","0","3","A","0","0","1","0","0","9","5",".","p","d","f">>,
     <<"s","0","3","a","0","0","1","0","0","9","5",".","P","D","F">>,
     <<"S","3","A","0","0","1","0","0","9","5",".","p","d","f">>,
     <<"S","0","3","_","1","_","9","5",".","p","d","f">> >>

DirNameIdx == {1, 2, 3, 4, 5}

FileNameIdx == {4, 5, 6, 7, 8}

NodeOptions ==
  {[idx |-> i, isDir |-> TRUE] : i \in DirNameIdx}
    \cup {[idx |-> i, isDir |-> FALSE] : i \in FileNameIdx}

\* parent of each node, nodes numbered level by level; 0 is the archive's top level
Shapes(n) ==
  {p \in [1..n -> 0..(n-1)] :
     \A i \in 1..n : p[i] < i /\ (i > 1 => p[i-1] <= p[i])}

\* the labellings of a shape: a parent is a directory, siblings differ in name
\* (and are numbered by name, which picks one numbering of each tree)
Labels(n, p) ==
  {l \in [1..n -> NodeOptions] :
     \A i \in 1..n :
       /\ p[i] # 0 => l[p[i]].isDir
       /\ \A j \in 1..(i-1) : p[j] = p[i] => l[j].idx < l[i].idx}

RECURSIVE NodePath(_, _, _)
NodePath(p, l, i) ==
  IF i = 0 THEN << >> ELSE Append(NodePath(p, l, p[i]), NamePool[l[i].idx])

TreeArchive(n, p, l) ==
  {[path |-> NodePath(p, l, i), isDir |-> l[i].isDir,
    data |-> IF l[i].isDir THEN 0 ELSE i] : i \in 1..n}

Uploads ==
  UNION {UNION {{TreeArchive(n, p, l) : l \in Labels(n, p)} : p \in Shapes(n)} : n \in 0..MaxNodes}

----------------------------------------------------------------------------
(* State *)

VARIABLES
  pc,                     \* where the script is: "idle", "detect", "passA", "passB",
                          \* "zip", "done", or halted: "stopped", "failed", "crashed"
  run,                    \* which run of the pipeline this is
  uploaded_zip,           \* the archive handed to st.file_uploader
  fs,                     \* the content of temp_dir
  fsIn,                   \* the content of temp_dir right after extraction
  base_path,
  walk,                   \* os.walk: the directories still to be visited
  root,                   \* os.walk: the directory being visited
  dirs,                   \* os.walk: the dirs list of the directory being visited
  todo,                   \* what is left of list(dirs) in the inner for loop
  visited,                \* the directories os.walk has listed in this run
  folders_renamed_count,
  renamed_folder_map,     \* a dict in insertion order: a sequence of [k, v]
  final_renamed_paths,
  folder_idx,             \* position of the Part 2 loop in final_renamed_paths
  entries,                \* what is left of os.listdir(folder_path)
  files_renamed_count,
  log,                    \* what st.write / st.warning / st.error have shown
  download,               \* the zip behind st.download_button, once it is offered
  prev_log                \* what the earlier runs have shown

vars ==
  <<pc, run, uploaded_zip, fs, fsIn, base_path, walk, root, dirs, todo, visited,
    folders_renamed_count, renamed_folder_map, final_renamed_paths, folder_idx,
    entries, files_renamed_count, log, download, prev_log>>

NoZip == [offered |-> FALSE, members |-> {}]

\* dict: keys, values, d[k] = v
MapKeys(m) == {m[i].k : i \in 1..Len(m)}

MapValues(m) == [i \in 1..Len(m) |-> m[i].v]

\* variant: the new path is recorded as the key
MapPut_KeyIsNew(m, key, val) == Append(m, [k |-> val, v |-> val])

\* variant: the original path is recorded as the value
MapPut_ValueIsOld(m, key, val) == Append(m, [k |-> key, v |-> key])

MapPut(m, key, val) ==
  IF key \in MapKeys(m)
  THEN [i \in 1..Len(m) |-> IF m[i].k = key THEN [k |-> key, v |-> val] ELSE m[i]]
  ELSE Append(m, [k |-> key, v |-> val])

----------------------------------------------------------------------------
(* The run *)

Init ==
  /\ pc = "idle"
  /\ run = 1
  /\ uploaded_zip \in Uploads
  /\ fs = {}
  /\ fsIn = {}
  /\ base_path = << >>
  /\ walk = << >>
  /\ root = << >>
  /\ dirs = << >>
  /\ todo = << >>
  /\ visited = {}
  /\ folders_renamed_count = 0
  /\ renamed_folder_map = << >>
  /\ final_renamed_paths = << >>
  /\ folder_idx = 0
  /\ entries = << >>
  /\ files_renamed_count = 0
  /\ log = << >>
  /\ download = NoZip
  /\ prev_log = << >>

\* lines 47-55: a fresh temp_dir, extractall, st.stop() when it raises
Extract ==
  /\ pc = "idle"
  /\ \E ok \in BOOLEAN :
       IF ok
       THEN /\ fs' = ExtractAll(uploaded_zip)
            /\ fsIn' = ExtractAll(uploaded_zip)
            /\ pc' = "detect"
            /\ log' = log
       ELSE /\ fs' = fs
            /\ fsIn' = fsIn
            /\ pc' = "stopped"
            /\ log' = Append(log, [part |-> "unzip", status |-> "error", path |-> << >>,
                                    why |-> "BadZipFile"])
  /\ UNCHANGED <<run, uploaded_zip, base_path, walk, root, dirs, todo, visited,
                 folders_renamed_count, renamed_folder_map, final_renamed_paths,
                 folder_idx, entries, files_renamed_count, download,
                 prev_log>>

\* variant: the single top-level folder is not taken as the base
DetectBase_NoNarrowing(fsys) == << >>

\* lines 57-63
DetectBase(fsys) ==
  LET extracted_contents == ListDir(fsys, << >>)
  IN  IF Cardinality(extracted_contents) = 1
         /\ \A name \in extracted_contents : IsDirAt(fsys, Join(<< >>, name))
      THEN Join(<< >>, CHOOSE name \in extracted_contents : TRUE)
      ELSE << >>

\* lines 57-82: base path, counters and map initialised, os.walk(base_path) created
FindBasePath ==
  /\ pc = "detect"
  /\ base_path' = DetectBase(fs)
  /\ walk' = << DetectBase(fs) >>
  /\ root' = DetectBase(fs)
  /\ dirs' = << >>
  /\ todo' = << >>
  /\ visited' = {}
  /\ folders_renamed_count' = 0
  /\ renamed_folder_map' = << >>
  /\ pc' = "passA"
  /\ UNCHANGED <<run, uploaded_zip, fs, fsIn, final_renamed_paths, folder_idx,
                 entries, files_renamed_count, log, download, prev_log>>

\* variant: only base_path is listed, no directory below it is visited
WalkPending_NoDescend == walk

\* os.walk after the loop body: the directories left in dirs are visited next, in order
WalkPending == [i \in 1..Len(dirs) |-> Join(root, dirs[i])] \o walk

\* line 84: os.walk yields the next directory; one it cannot list is passed over
WalkNext ==
  /\ pc = "passA"
  /\ todo = << >>
  /\ WalkPending # << >>
  /\ LET top == Head(WalkPending)
     IN  /\ walk' = Tail(WalkPending)
         /\ IF IsDirAt(fs, top)
            THEN /\ root' = top
                 /\ visited' = visited \cup {top}
                 /\ \E order \in Perms(SubdirNames(fs, top)) :
                      dirs' = order /\ todo' = order
            ELSE /\ root' = root
                 /\ visited' = visited
                 /\ dirs' = << >>
                 /\ todo' = << >>
  /\ UNCHANGED <<pc, run, uploaded_zip, fs, fsIn, base_path, folders_renamed_count,
                 renamed_folder_map, final_renamed_paths, folder_idx, entries,
                 files_renamed_count, log, download, prev_log>>

\* line 86 and line 89: the folder is one to rename
FolderEligible(dir_name) == HasFolderPrefix(dir_name) /\ FirstDigitRun(dir_name) # << >>

\* variant: no collision check
FolderCollision_Never(fsys, new_path) == FALSE

\* line 92
FolderCollision(fsys, new_path) == PathExists(fsys, new_path)

\* variant: a failed move ends the run
AfterFolderMoveError_Stop == "stopped"

\* lines 101-102: the except branch warns, the for loop goes on
AfterFolderMoveError == "passA"

\* lines 85-102: one pass of the inner for loop
RenameFolder ==
  /\ pc = "passA"
  /\ todo # << >>
  /\ LET dir_name == Head(todo)
         original_path == Join(root, dir_name)
         new_path == Join(root, NewFolderName(dir_name))
     IN  /\ todo' = Tail(todo)
         /\ IF ~FolderEligible(dir_name)
            THEN UNCHANGED <<pc, fs, folders_renamed_count, renamed_folder_map, dirs, log>>
            ELSE IF FolderCollision(fs, new_path)
            THEN /\ log' = Append(log, [part |-> "folder", status |-> "collision",
                                        path |-> original_path, why |-> ""])
                 /\ UNCHANGED <<pc, fs, folders_renamed_count, renamed_folder_map, dirs>>
            ELSE \E allowed \in BOOLEAN :
                   IF RenameError(allowed, fs, original_path,
                                  ShutilMoveTarget(fs, original_path, new_path)) = "OK"
                   THEN /\ fs' = ShutilMove(fs, original_path, new_path)
                        /\ folders_renamed_count' = folders_renamed_count + 1
                        /\ renamed_folder_map' = MapPut(renamed_folder_map, original_path, new_path)
                        /\ dirs' = ListRemove(dirs, dir_name)
                        /\ log' = Append(log, [part |-> "folder", status |-> "renamed",
                                               path |-> original_path, why |-> ""])
                        /\ pc' = pc
                   ELSE /\ log' = Append(log, [part |-> "folder", status |-> "failed",
                                               path |-> original_path,
                                               why |-> RenameError(allowed, fs, original_path,
                                                         ShutilMoveTarget(fs, original_path, new_path))])
                        /\ pc' = AfterFolderMoveError
                        /\ UNCHANGED <<fs, folders_renamed_count, renamed_folder_map, dirs>>
  /\ UNCHANGED <<run, uploaded_zip, fsIn, base_path, walk, root, visited,
                 final_renamed_paths, folder_idx, entries, files_renamed_count, download,
                 prev_log>>

\* variant: the parent of each renamed folder is scanned
FinalRenamedPaths_Parents(m) == [i \in 1..Len(m) |-> Dirname(m[i].v)]

\* line 109
FinalRenamedPaths(m) == MapValues(m)

\* lines 103-112: os.walk is exhausted; Part 2 starts
StartFiles ==
  /\ pc = "passA"
  /\ todo = << >>
  /\ WalkPending = << >>
  /\ dirs' = << >>
  /\ files_renamed_count' = 0
  /\ final_renamed_paths' = FinalRenamedPaths(renamed_folder_map)
  /\ folder_idx' = 0
  /\ entries' = << >>
  /\ pc' = "passB"
  /\ UNCHANGED <<run, uploaded_zip, fs, fsIn, base_path, walk, root, todo, visited,
                 folders_renamed_count, renamed_folder_map, log, download, prev_log>>

\* lines 114-118: the next folder_path; os.listdir is outside any try
ListFolder ==
  /\ pc = "passB"
  /\ entries = << >>
  /\ folder_idx < Len(final_renamed_paths)
  /\ folder_idx' = folder_idx + 1
  /\ LET folder_path == final_renamed_paths[folder_idx + 1]
     IN  IF IsDirAt(fs, folder_path)
         THEN /\ \E order \in Perms(ListDir(fs, folder_path)) : entries' = order
              /\ pc' = pc
         ELSE /\ entries' = entries
              /\ pc' = "crashed"
  /\ UNCHANGED <<run, uploaded_zip, fs, fsIn, base_path, walk, root, dirs, todo, visited,
                 folders_renamed_count, renamed_folder_map, final_renamed_paths,
                 files_renamed_count, log, download, prev_log>>

\* lines 136-137: the except branch warns, the for loop goes on
AfterFileRenameError == "passB"

\* lines 118-139: one pass of the inner for loop
RenameFile ==
  /\ pc = "passB"
  /\ entries # << >>
  /\ LET filename == Head(entries)
         folder_path == final_renamed_paths[folder_idx]
         old_file_path == Join(folder_path, filename)
         new_file_path == Join(folder_path, NewFileName(filename))
     IN  /\ entries' = Tail(entries)
         /\ IF ~HasPdfSuffix(filename)
            THEN UNCHANGED <<pc, fs, files_renamed_count, log>>
            ELSE IF ~PdfMatch(filename)
            THEN /\ log' = Append(log, [part |-> "file", status |-> "skipped",
                                        path |-> old_file_path, why |-> ""])
                 /\ UNCHANGED <<pc, fs, files_renamed_count>>
            ELSE \E allowed \in BOOLEAN :
                   IF RenameError(allowed, fs, old_file_path, new_file_path) = "OK"
                   THEN /\ fs' = OsRename(fs, old_file_path, new_file_path)
                        /\ files_renamed_count' = files_renamed_count + 1
                        /\ log' = Append(log, [part |-> "file", status |-> "renamed",
                                               path |-> old_file_path, why |-> ""])
                        /\ pc' = pc
                   ELSE /\ log' = Append(log, [part |-> "file", status |-> "failed",
                                               path |-> old_file_path,
                                               why |-> RenameError(allowed, fs, old_file_path,
                                                                   new_file_path)])
                        /\ pc' = AfterFileRenameError
                        /\ UNCHANGED <<fs, files_renamed_count>>
  /\ UNCHANGED <<run, uploaded_zip, fsIn, base_path, walk, root, dirs, todo, visited,
                 folders_renamed_count, renamed_folder_map, final_renamed_paths,
                 folder_idx, download, prev_log>>

\* line 141: both loops of Part 2 are exhausted
FinishFiles ==
  /\ pc = "passB"
  /\ entries = << >>
  /\ folder_idx = Len(final_renamed_paths)
  /\ pc' = "zip"
  /\ UNCHANGED <<run, uploaded_zip, fs, fsIn, base_path, walk, root, dirs, todo, visited,
                 folders_renamed_count, renamed_folder_map, final_renamed_paths,
                 folder_idx, entries, files_renamed_count, log, download, prev_log>>

\* lines 146-164: zip temp_dir and offer the download; no try around the zipping
ZipAndDownload ==
  /\ pc = "zip"
  /\ \E ok \in BOOLEAN :
       IF ok
       THEN download' = [offered |-> TRUE, members |-> ZipTree(fs)] /\ pc' = "done"
       ELSE download' = download /\ pc' = "failed"
  /\ UNCHANGED <<run, uploaded_zip, fs, fsIn, base_path, walk, root, dirs, todo, visited,
                 folders_renamed_count, renamed_folder_map, final_renamed_paths,
                 folder_idx, entries, files_renamed_count, log, prev_log>>

\* lines 40-47: the tree a run left is uploaded and the button is pressed again
Rerun ==
  /\ pc = "done"
  /\ run < MaxRuns
  /\ run' = run + 1
  /\ uploaded_zip' = fs
  /\ fs' = {}
  /\ pc' = "idle"
  /\ log' = << >>
  /\ download' = NoZip
  /\ prev_log' = prev_log \o log
  /\ UNCHANGED <<fsIn, base_path, walk, root, dirs, todo, visited,
                 folders_renamed_count, renamed_folder_map, final_renamed_paths,
                 folder_idx, entries, files_renamed_count>>

Next ==
  \/ Extract
  \/ FindBasePath
  \/ WalkNext
  \/ RenameFolder
  \/ StartFiles
  \/ ListFolder
  \/ RenameFile
  \/ FinishFiles
  \/ ZipAndDownload
  \/ Rerun

Spec == Init /\ [][Next]_vars

----------------------------------------------------------------------------
(* Vocabulary of the properties.  The naming rules are restated here from  *)
(* their description, without the regular expressions and int()/str() of   *)
(* the script, so that the properties compare the two.                     *)

PathsOf(fsys) == {e.path : e \in fsys}

\* the run is past base detection: base_path, the map and the log are this run's
InRun == pc \in {"passA", "passB", "zip", "done", "failed"}

\* Part 1 is over and Part 2 has not touched anything yet
PassAFinished == pc = "passB" /\ folder_idx = 0

LogHas(part, status) ==
  \E i \in 1..Len(log) : log[i].part = part /\ log[i].status = status

LogIndex(part, status, path) ==
  {i \in 1..Len(log) :
     log[i].part = part /\ log[i].status = status /\ log[i].path = path}

\* the system refused a rename that the tree allowed
Refused(l) == \E i \in 1..Len(l) : l[i].why = "EACCES"

RECURSIVE DropToDigit(_)
DropToDigit(s) == IF s = << >> \/ IsDigit(s[1]) THEN s ELSE DropToDigit(Tail(s))

RECURSIVE TakeDigits(_)
TakeDigits(s) ==
  IF s = << >> \/ ~IsDigit(s[1]) THEN << >> ELSE << s[1] >> \o TakeDigits(Tail(s))

RECURSIVE StripZeros(_)
StripZeros(ds) == IF Len(ds) > 1 /\ ds[1] = "0" THEN StripZeros(Tail(ds)) ELSE ds

StartsWithAC(name) == Len(name) >= 2 /\ name[1] \in {"A", "a"} /\ name[2] \in {"C", "c"}

HasDigitRun(name) == \E i \in 1..Len(name) : IsDigit(name[i])

\* the first digit run as an integer, leading zeros stripped
TargetName(name) == StripZeros(TakeDigits(DropToDigit(name)))

\* 'S' + 2 digits + 'A' + 3 digits + 4 digits + '.pdf', letters in either case
FilePattern(name) ==
  /\ Len(name) = 15
  /\ name[1] \in {"S", "s"}
  /\ name[4] \in {"A", "a"}
  /\ \A i \in {2, 3} \cup (5..11) : IsDigit(name[i])
  /\ name[12] = "."
  /\ name[13] \in {"P", "p"} /\ name[14] \in {"D", "d"} /\ name[15] \in {"F", "f"}

\* '<S and its two digits>_<int of the 3 digits>_<int of the 4 digits>.pdf'
TargetFileName(name) ==
  <<"S", name[2], name[3], "_">> \o StripZeros(SubSeq(name, 5, 7)) \o <<"_">>
    \o StripZeros(SubSeq(name, 8, 11)) \o <<".", "p", "d", "f">>

\* the directories below base that are AC-prefixed, have a digit run and a free target
NotYetRenamed(fsys, base) ==
  {e \in fsys :
     /\ e.isDir /\ IsPrefix(base, e.path) /\ e.path # base
     /\ StartsWithAC(Basename(e.path)) /\ HasDigitRun(Basename(e.path))
     /\ ~PathExists(fsys, Join(Dirname(e.path), TargetName(Basename(e.path))))}

\* a folder renamed by Part 1 of this run: a directory at a path that was not there
\* after extraction, in a directory that was
RenamedFolders ==
  {d.path : d \in {e \in fs : /\ e.isDir
                              /\ e.path \notin PathsOf(fsIn)
                              /\ PathExists(fsIn, Dirname(e.path))}}

\* the extracted paths of the folders that are no longer where they were, while
\* their parent still is
MovedAway ==
  {d.path : d \in {e \in fsIn : /\ e.isDir
                                /\ ~PathExists(fs, e.path)
                                /\ PathExists(fs, Dirname(e.path))}}

----------------------------------------------------------------------------
(* C1 *)

\* C1 (as stated): when Part 1 has finished and no move failed, no directory below
\* the effective root is AC-prefixed with a digit run and a free target name, at any
\* depth, also inside a folder renamed in this pass.
C1_NoneLeft ==
  (PassAFinished /\ ~LogHas("folder", "failed")) => NotYetRenamed(fs, base_path) = {}

\* C1 (amended): when Part 1 has finished and no move failed, every directory below the
\* effective root that is AC-prefixed with a digit run and a free target name lies
\* inside a folder renamed in this pass (os.walk never enters those); all others, at
\* any depth, were renamed to the target name in their own parent.
C1_NoneLeftOutsideRenamed ==
  (PassAFinished /\ ~LogHas("folder", "failed")) =>
    /\ \A e \in NotYetRenamed(fs, base_path) :
         \E r \in RenamedFolders : IsPrefix(r, e.path) /\ r # e.path
    /\ \A i \in 1..Len(renamed_folder_map) :
         renamed_folder_map[i].v =
           Join(Dirname(renamed_folder_map[i].k), TargetName(Basename(renamed_folder_map[i].k)))

C1_Witness ==
  /\ PassAFinished /\ ~LogHas("folder", "failed")
  /\ \E i \in 1..Len(renamed_folder_map) :
       /\ Len(renamed_folder_map[i].k) >= Len(base_path) + 2
       /\ IsDirAt(fs, renamed_folder_map[i].v)
  /\ NotYetRenamed(fs, base_path) = {}

----------------------------------------------------------------------------
(* C2 *)

----------------------------------------------------------------------------
(* C3 *)

\* C3: a step changes the name of a file only in Part 2 and only for a file that sits
\* directly inside a folder Part 1 of this run renamed; and when Part 2 is over, every
\* extracted file that was not directly inside a folder that was moved still has
\* its name.
C3_FilesOnlyInRenamedFolders ==
  /\ [][\A e \in fs : \A e2 \in fs' :
          (~e.isDir /\ ~e2.isDir /\ e.data = e2.data /\ Basename(e.path) # Basename(e2.path))
            => /\ pc = "passB"
               /\ Dirname(e.path) \in RenamedFolders
               /\ Dirname(e2.path) = Dirname(e.path)]_vars
  /\ [](pc \in {"zip", "done"} =>
          \A e \in fsIn :
            (~e.isDir /\ Dirname(e.path) \notin MovedAway)
              => \E e2 \in fs : ~e2.isDir /\ e2.data = e.data
                                /\ Basename(e2.path) = Basename(e.path))

C3_Witness ==
  /\ pc = "zip"
  /\ files_renamed_count >= 1
  /\ \E e \in fs : /\ ~e.isDir /\ FilePattern(Basename(e.path))
                   /\ Len(e.path) >= 2 /\ StartsWithAC(Basename(Dirname(e.path)))
                   /\ Dirname(e.path) \notin RenamedFolders

----------------------------------------------------------------------------
(* C4 *)

\* the step of Part 2 on filename moved the entry to the target name and counted it
FileRenamedTo(folder, filename) ==
  /\ \E e \in fs : /\ e.path = Join(folder, filename)
                   /\ [e EXCEPT !.path = Join(folder, TargetFileName(filename))] \in fs'
  /\ ~PathExists(fs', Join(folder, filename))
  /\ files_renamed_count' = files_renamed_count + 1

\* the step of Part 2 on filename left the tree and the count alone and logged a warning
FileRenameFailed(folder, filename) ==
  /\ fs' = fs /\ files_renamed_count' = files_renamed_count
  /\ Len(log') = Len(log) + 1
  /\ log'[Len(log')].part = "file" /\ log'[Len(log')].status = "failed"
  /\ log'[Len(log')].path = Join(folder, filename)

\* C4 (as stated): every entry name scanned in Part 2 that has the file pattern is
\* renamed to the target file name and counted; any other name is left unchanged and
\* not counted.  (A step in which the system refuses a rename that the tree allows is
\* not held against the statement.)
C4_PatternRenamed ==
  [][(pc = "passB" /\ entries # << >> /\ ~Refused(log')) =>
       IF FilePattern(Head(entries))
       THEN FileRenamedTo(final_renamed_paths[folder_idx], Head(entries))
       ELSE fs' = fs /\ files_renamed_count' = files_renamed_count]_vars

\* C4 (amended): every entry name scanned in Part 2 that has the file pattern is renamed
\* to the target file name and counted, unless os.rename raises (the target name is
\* taken by a directory, or the entry is a directory and the target name is taken by
\* a file or a non-empty directory, or the system refuses): then the entry keeps its
\* name, is not counted and a warning is logged; any other name is left unchanged
\* and not counted.
C4_PatternRenamedUnlessError ==
  [][(pc = "passB" /\ entries # << >>) =>
       IF FilePattern(Head(entries))
       THEN \/ FileRenamedTo(final_renamed_paths[folder_idx], Head(entries))
            \/ FileRenameFailed(final_renamed_paths[folder_idx], Head(entries))
       ELSE fs' = fs /\ files_renamed_count' = files_renamed_count]_vars

C4_Witness ==
  /\ pc = "passB"
  /\ LogHas("file", "renamed") /\ LogHas("file", "skipped")
  /\ \E e \in fs : /\ Basename(e.path) = <<"S","0","3","_","1","_","9","5",".","p","d","f">>
                   /\ Dirname(e.path) = final_renamed_paths[folder_idx]
                   /\ \E i \in 1..Len(log) :
                        /\ log[i].part = "file" /\ log[i].status = "renamed"
                        /\ Basename(log[i].path) =
                             <<"s","0","3","a","0","0","1","0","0","9","5",".","P","D","F">>

----------------------------------------------------------------------------
(* C5 *)

\* C5: extracting the zip that is offered for download gives back the tree that was in
\* temp_dir when it was zipped: the same paths, files and directories alike, and the
\* same file contents.
C5_RoundTrip == pc = "done" => ExtractAll(download.members) = fs

----------------------------------------------------------------------------
(* C6 *)

NothingRenamedThisRun ==
  /\ fs = fsIn
  /\ ~LogHas("folder", "renamed")
  /\ ~LogHas("file", "renamed")

----------------------------------------------------------------------------
(* C7 *)

Halted == {"stopped", "failed", "crashed"}

\* the directories os.walk(base_path) has to list: base_path and every extracted
\* directory below it that is not a moved folder nor inside one
ToBeWalked ==
  {base_path} \cup
  {d.path : d \in {e \in fsIn :
     /\ e.isDir /\ IsPrefix(base_path, e.path) /\ e.path # base_path
     /\ \A k \in (Len(base_path) + 1)..Len(e.path) : SubSeq(e.path, 1, k) \notin MovedAway}}

LogHasPath(part, path) ==
  \E i \in 1..Len(log) : log[i].part = part /\ log[i].path = path

\* C7: a run halts without a download only in the extraction step or in the zipping
\* step; after a failed extraction nothing was moved; the download exists exactly when
\* the run is done; a step of Part 1 or Part 2 on one entry, whatever its outcome
\* (collision, mismatch, failed move), stays in its pass and keeps every remaining
\* entry to be processed; and by the time the run zips, every directory to be walked
\* was listed and every entry with the '.pdf' ending of every renamed folder was handled.
C7_OnlyExtractAndZipAreFatal ==
  /\ [](/\ pc # "crashed"
        /\ download.offered <=> (pc = "done")
        /\ pc = "stopped" =>
             /\ fs = {}
             /\ Len(log) = 1 /\ log[1].part = "unzip"
        /\ pc \in {"passB", "zip", "done", "failed"} => visited = ToBeWalked
        /\ pc \in {"zip", "done", "failed"} =>
             \A i \in 1..Len(renamed_folder_map) :
               \A c \in ChildrenOf(fsIn, renamed_folder_map[i].k) :
                 EndsWith(StrLower(Basename(c.path)), <<".", "p", "d", "f">>)
                   => LogHasPath("file", Join(renamed_folder_map[i].v, Basename(c.path))))
  /\ [][/\ (pc' \in Halted /\ pc \notin Halted) => pc \in {"idle", "zip"}
        /\ (pc = "passA" /\ todo # << >>) =>
             /\ pc' = "passA" /\ todo' = Tail(todo) /\ walk' = walk /\ root' = root
             /\ \A i \in 1..Len(dirs) :
                  dirs[i] # Head(todo) => \E j \in 1..Len(dirs') : dirs'[j] = dirs[i]
        /\ (pc = "passB" /\ entries # << >>) =>
             /\ pc' = "passB" /\ entries' = Tail(entries)
             /\ final_renamed_paths' = final_renamed_paths /\ folder_idx' = folder_idx]_vars

C7_Witness ==
  /\ pc = "done" /\ download.offered
  /\ \E i, j \in 1..Len(log) :
       /\ i < j
       /\ log[i].part = "folder" /\ log[i].status = "failed"
       /\ log[j].part = "folder" /\ log[j].status = "renamed"
  /\ LogHas("file", "failed")

----------------------------------------------------------------------------
(* C8 *)

\* two entries of one folder that Part 1 moved, both with the file pattern and the
\* same target file name
SameTargetPairs ==
  {t \in (1..Len(renamed_folder_map)) \X fsIn \X fsIn :
     /\ t[2] # t[3]
     /\ Dirname(t[2].path) = renamed_folder_map[t[1]].k
     /\ Dirname(t[3].path) = renamed_folder_map[t[1]].k
     /\ FilePattern(Basename(t[2].path)) /\ FilePattern(Basename(t[3].path))
     /\ TargetFileName(Basename(t[2].path)) = TargetFileName(Basename(t[3].path))}

\* both renames were applied and counted, and the folder holds exactly one entry with
\* the target name: the one processed last
BothAppliedLastWins(t) ==
  LET folder == renamed_folder_map[t[1]].v
      pa == Join(folder, Basename(t[2].path))
      pb == Join(folder, Basename(t[3].path))
      target == Join(folder, TargetFileName(Basename(t[2].path)))
  IN  /\ LogIndex("file", "renamed", pa) # {}
      /\ LogIndex("file", "renamed", pb) # {}
      /\ files_renamed_count >= 2
      /\ \A i \in LogIndex("file", "renamed", pa) : \A j \in LogIndex("file", "renamed", pb) :
           {[isDir |-> e.isDir, data |-> e.data] : e \in {x \in fs : x.path = target}}
             = {IF i < j THEN [isDir |-> t[3].isDir, data |-> t[3].data]
                         ELSE [isDir |-> t[2].isDir, data |-> t[2].data]}
      /\ ~PathExists(fs, pa) /\ ~PathExists(fs, pb)

----------------------------------------------------------------------------
(* C9 *)

\* C9: throughout Part 1 and Part 2, and so at the start of Part 2, every value of the
\* map is the path of an existing directory, the values differ pairwise, and the map
\* has as many entries as folders were counted as renamed.
C9_MapValuesValid ==
  pc \in {"passA", "passB"} =>
    /\ \A i \in 1..Len(renamed_folder_map) : IsDirAt(fs, renamed_folder_map[i].v)
    /\ \A i, j \in 1..Len(renamed_folder_map) :
         i # j => renamed_folder_map[i].v # renamed_folder_map[j].v
    /\ Len(renamed_folder_map) = folders_renamed_count
    /\ Cardinality(MapKeys(renamed_folder_map)) = folders_renamed_count

C9_Witness ==
  /\ PassAFinished
  /\ Len(renamed_folder_map) >= 2
  /\ \E i, j \in 1..Len(renamed_folder_map) :
       /\ i < j
       /\ Len(renamed_folder_map[j].k) > Len(renamed_folder_map[i].k)
       /\ IsDirAt(fs, renamed_folder_map[i].v) /\ IsDirAt(fs, renamed_folder_map[j].v)

----------------------------------------------------------------------------
(* C10 *)

\* the archive's top level is one directory, AC-prefixed with a digit run
SingleACTop(name) ==
  /\ ListDir(fsIn, << >>) = {name}
  /\ IsDirAt(fsIn, << name >>)
  /\ StartsWithAC(name) /\ HasDigitRun(name)

\* C10: when the archive's single top-level entry is a directory that is AC-prefixed
\* with a digit run, it is the effective root, it keeps its name, it is neither a key
\* nor a value of the map nor scanned by Part 2, and every file directly inside it
\* keeps its name and content.
C10_RootUntouched ==
  InRun =>
    \A name \in ListDir(fsIn, << >>) :
      SingleACTop(name) =>
        /\ base_path = << name >>
        /\ IsDirAt(fs, << name >>)
        /\ << name >> \notin MapKeys(renamed_folder_map)
        /\ \A i \in 1..Len(renamed_folder_map) : renamed_folder_map[i].v # << name >>
        /\ pc # "passA" =>
             \A i \in 1..Len(final_renamed_paths) : final_renamed_paths[i] # << name >>
        /\ \A e \in fsIn : (~e.isDir /\ Dirname(e.path) = << name >>) => e \in fs

C10_Witness ==
  /\ pc = "done"
  /\ files_renamed_count >= 1
  /\ \E name \in ListDir(fsIn, << >>) :
       /\ SingleACTop(name)
       /\ \E e \in fs : ~e.isDir /\ Dirname(e.path) = << name >> /\ FilePattern(Basename(e.path))

====
